---- MODULE Spec2Model ----
(***************************************************************************)
(* The gallery client of static/js/main.js (galleryApp and the document    *)
(* level keydown handler) as a state machine.  The server side (webhook    *)
(* receiver, metadata store, read API) is the environment: an append-only  *)
(* store that answers GET /api/images with the records it holds.           *)
(*                                                                         *)
(* Strings are sequences of one-character strings; the calendar emoji of   *)
(* formatDate is the single character "CAL".  A timestamp is the decimal   *)
(* number YYYYMMDDHH (an ISO date-time cut to the hour); 0 is a missing    *)
(* timestamp.  A missing caption is the empty string (both are falsy).     *)
(***************************************************************************)
EXTENDS Integers, Sequences, FiniteSets, TLC

VARIABLES
    \* ---- galleryApp() data, main.js lines 6-21
    loading, images, displayedImages, groupedImages, lightboxOpen,
    currentImage, currentIndex, currentPage, totalPages, searchQuery,
    selectedPhotos, selectionMode, slideshowActive, slideshowInterval,
    viewMode,
    \* ---- the browser around it
    bodyOverflow,   \* document.body.style.overflow
    timers,         \* handles of the setInterval timers of startSlideshow still running
    autoRefresh,    \* the setInterval of setupAutoRefresh has been installed
    phase,          \* "new": init() not yet called, "up": init() has been called
    pending,        \* loadImages / fetchHistory calls suspended at their fetch
    notes,          \* the notifications shown by the last step, in order
    filteredImages, \* the local filteredImages of the last updatePagination
    lastOp,         \* the name of the last step taken (history)
    touch,          \* the last touch gesture on the lightbox: its deltas and duration
    timeouts,       \* the setTimeout callbacks of downloadSelected not yet run, in
                    \* the order they were set: what each will do, and in how many ms
    batches,        \* one entry for each downloadSelected call that found a selection:
                    \* the selection it found, the downloads its callbacks triggered so
                    \* far, the number its completion step reported (history)
    \* ---- the server
    storeLen,       \* the number of records the metadata store holds; to the gallery
                    \* they are Catalog records 1..storeLen
    store,          \* the metadata store: its ImageRecords in order of arrival
    delivery,       \* the webhook delivery handled last
    response,       \* the answer of the server to the request handled last
    errorLog,       \* what the webhook receiver logged while handling it
    \* ---- the page
    pageNumbers,    \* the page buttons drawn by the last getPageNumbers()
    online,         \* the server can be reached from the browser
    \* ---- history
    loadedCount     \* the number of records in the answer of the last
                    \* loadImages that succeeded; 0 before the first

vars == <<loading, images, displayedImages, groupedImages, lightboxOpen,
          currentImage, currentIndex, currentPage, totalPages, searchQuery,
          selectedPhotos, selectionMode, slideshowActive, slideshowInterval,
          viewMode, bodyOverflow, timers, autoRefresh, phase, pending, notes,
          filteredImages, lastOp, storeLen,
          touch, timeouts, batches, store, delivery, response, errorLog,
          pageNumbers, online, loadedCount>>

(***************************************************************************)
(* Bounds and program constants                                            *)
(***************************************************************************)
photosPerPage == 24

\* the largest store of the pagination specification (three pages)
MaxStore == 49

\* the largest store of the lightbox / slideshow specification
MaxShow == 3

\* the largest store of the specification of loads and notifications
MaxLoad == 2

\* loadImages calls that may be suspended at their fetch at the same time
MaxPending == 2

\* downloadSelected calls that find a selection
MaxBatches == 2

\* the events the provider delivers to the webhook have ids 1..MaxEvents
MaxEvents == 3

\* slideshow timers that may exist at the same time
MaxTimers == 2

Min(a, b) == IF a < b THEN a ELSE b
Max(a, b) == IF a > b THEN a ELSE b

(***************************************************************************)
(* Strings                                                                 *)
(***************************************************************************)
\* String.prototype.toLowerCase, one character (the capitals in use)
LowerChar(c) ==
    CASE c = "A" -> "a"
      [] c = "B" -> "b"
      [] c = "C" -> "c"
      [] c = "F" -> "f"
      [] c = "T" -> "t"
      [] OTHER -> c

\* String.prototype.toLowerCase
toLowerCase(s) == SubSeq([i \in 1..Len(s) |-> LowerChar(s[i])], 1, Len(s))

\* String.prototype.includes
includes(s, q) ==
    \E i \in 0..(Len(s) - Len(q)) : SubSeq(s, i + 1, i + Len(q)) = q

IsSpace(c) == c = " "

\* String.prototype.trim
RECURSIVE trimStart(_)
trimStart(s) ==
    IF s # <<>> /\ IsSpace(Head(s)) THEN trimStart(Tail(s)) ELSE s

RECURSIVE trimEnd(_)
trimEnd(s) ==
    IF s # <<>> /\ IsSpace(s[Len(s)]) THEN trimEnd(SubSeq(s, 1, Len(s) - 1)) ELSE s

trim(s) == trimEnd(trimStart(s))

DigitChars == <<"0", "1", "2", "3", "4", "5", "6", "7", "8", "9">>

\* the decimal digits of a number as Number.prototype.toString writes them
RECURSIVE NumToString(_)
NumToString(n) ==
    IF n < 10 THEN <<DigitChars[n + 1]>>
    ELSE NumToString(n \div 10) \o <<DigitChars[(n % 10) + 1]>>

(***************************************************************************)
(* Dates: new Date(timestamp) and its readers                              *)
(***************************************************************************)
getFullYear(ts) == ts \div 1000000
getMonth(ts) == (ts \div 10000) % 100      \* 1..12
getDate(ts) == (ts \div 100) % 100         \* 1..31
getHours(ts) == ts % 100

\* the number new Date(timestamp) subtracts as: it grows with time
DateValue(ts) ==
    (((getFullYear(ts) * 12 + (getMonth(ts) - 1)) * 31 + (getDate(ts) - 1)) * 24)
        + getHours(ts)

\* date.toLocaleDateString() in the en-US locale: M/D/YYYY
toLocaleDateString(ts) ==
    NumToString(getMonth(ts)) \o <<"/">> \o NumToString(getDate(ts))
        \o <<"/">> \o NumToString(getFullYear(ts))

\* date.toLocaleDateString('en-US', {year: 'numeric', month: 'long'}): the
\* month's name and the year, here the pair <<year, month>>
monthYearOf(ts) == <<getFullYear(ts), getMonth(ts)>>

formatDate(ts) ==
    IF ts = 0 THEN <<>>
    ELSE <<"CAL", " ">> \o toLocaleDateString(ts)

(***************************************************************************)
(* The server: an append-only store of ImageRecords and the read API       *)
(***************************************************************************)
CaptionTable ==
    << <<"C", "a", "t">>,
       <<>>,
       <<"c", "a", "t", " ", "n", "a", "p">>,
       <<"F", "i", "r", "s", "t", " ", "B", "a", "t", "h">>,
       <<"1", "2">>,
       <<"b", "a", "t", "h", " ", "1">> >>

MonthTable == <<1, 2, 11, 12>>
DayTable == <<1, 2, 12, 21>>

\* the i-th record the webhook receiver appends; records arrive in no
\* particular order of timestamp, and records i and i + 24 share a timestamp
CatalogTimestamp(i) ==
    ((2023 + ((i \div 3) % 2)) * 1000000)
        + (MonthTable[1 + ((i * 3) % 4)] * 10000)
        + (DayTable[1 + ((i \div 2) % 4)] * 100)
        + (((i * 5) % 3) * 6)

Catalog(i) ==
    [id |-> i, timestamp |-> CatalogTimestamp(i), caption |-> CaptionTable[1 + (i % 6)]]

\* GET /api/images of a store of n records: data.images
apiImages(n) == SubSeq([i \in 1..n |-> Catalog(i)], 1, n)

\* the provider's answer to getFile for a file reference: a fetchable URL
fileUrl(file) == <<"h", "t", "t", "p", "s", ":", "/", "/", "f", "/">> \o file

\* the photo attachment of event id: the resolutions the provider offers
photoSizes(id) ==
    << [file |-> <<"s">> \o NumToString(id), width |-> 90],
       [file |-> <<"l">> \o NumToString(id), width |-> 1280],
       [file |-> <<"m">> \o NumToString(id), width |-> 320] >>

\* the largest resolution of an attachment
largestSize(sizes) ==
    CHOOSE s \in {sizes[k] : k \in 1..Len(sizes)} :
        \A k \in 1..Len(sizes) : sizes[k].width <= s.width

\* the ImageRecord built from a photo event whose file reference resolved
ImageRecord(id) ==
    [id |-> id,
     full_url |-> fileUrl(largestSize(photoSizes(id)).file),
     caption |-> CaptionTable[1 + (id % 6)],
     timestamp |-> CatalogTimestamp(id)]

\* the records the store holds after in-order deliveries of events a+1..b
storedRecords(a, b) == SubSeq([k \in 1..(b - a) |-> ImageRecord(a + k)], 1, b - a)

NoDelivery == [kind |-> "none", id |-> 0, provider |-> "up"]
NoResponse == [status |-> "none"]

\* the fixed acknowledgment of the webhook endpoint
Acknowledgment == [status |-> "ok"]

\* variant: no comparison of ids
hasId_never(records, id) == FALSE

\* a record of that id is stored
hasId(records, id) == \E k \in 1..Len(records) : records[k].id = id

\* what the webhook receiver makes of a delivery d: the payload is
\* malformed, or holds no photo attachment, or holds one; the provider's
\* API is reachable or not; a record of the event's id is stored or not
ingestion(records, d) ==
    IF d.kind = "malformed" THEN "malformed payload"
    ELSE IF d.kind # "photo" THEN "no photo"
    ELSE IF d.provider = "down" THEN "provider unreachable"
    ELSE IF hasId(records, d.id) THEN "duplicate"
    ELSE "stored"

\* the ingestions that are failures: logged and swallowed
IngestionFailures == {"malformed payload", "provider unreachable"}

\* variant: every photo event is stored, resolved or not, with what was resolved
storeAfter_unresolved(records, d) ==
    IF d.kind # "photo" THEN records
    ELSE IF d.provider = "down"
         THEN Append(records, [ImageRecord(d.id) EXCEPT !.full_url = <<>>])
    ELSE IF hasId(records, d.id) THEN records
    ELSE Append(records, ImageRecord(d.id))

\* the store after the delivery
storeAfter(records, d) ==
    IF ingestion(records, d) = "stored" THEN Append(records, ImageRecord(d.id)) ELSE records

\* variant: a failed ingestion is answered with an error
webhookResponse_reportsFailure(result) ==
    IF result \in IngestionFailures THEN [status |-> "error"] ELSE Acknowledgment

\* what the receiver answers, whatever the ingestion came to
webhookResponse(result) == Acknowledgment

\* what it logs
webhookLog(result) == IF result \in IngestionFailures THEN <<result>> ELSE <<>>

\* what a fetch of /api/images can come to:
\*   "ok"       the response decodes to {images: [...]}
\*   "noimages" the response decodes to an object without images
\*   "fail"     fetch rejects, or response.json() rejects
FetchOutcomes == {"ok", "noimages", "fail"}

(***************************************************************************)
(* galleryApp: the pure parts                                              *)
(***************************************************************************)
\* a sequence given by a rule, as the array of its elements
Array(f) == SubSeq(f, 1, Len(f))

\* Array.prototype.sort with a comparator (a, b) => key(b) - key(a): the
\* indices of keys in the order of a stable sort, largest key first
stableOrderDesc(keys) ==
    LET n == Len(keys)
        rank == Array([i \in 1..n |->
                    1 + Cardinality({j \in 1..n :
                            \/ keys[j] > keys[i]
                            \/ keys[j] = keys[i] /\ j < i})])
    IN  Array([r \in 1..n |-> CHOOSE i \in 1..n : rank[i] = r])

\* variant: the comparator with a and b exchanged: oldest first
imageSortKey_oldestFirst(img) == 0 - DateValue(img.timestamp)

\* the comparator's key of an image, line 48
imageSortKey(img) == DateValue(img.timestamp)

\* images.sort((a, b) => new Date(b.timestamp) - new Date(a.timestamp)), line 48
sortNewestFirst(s) ==
    LET order == stableOrderDesc(Array([i \in 1..Len(s) |-> imageSortKey(s[i])]))
    IN  Array([r \in 1..Len(s) |-> s[order[r]]])

\* variant: the key without the year: { month: 'long' } alone
groupKey_monthOnly(image) == <<0, getMonth(image.timestamp)>>

\* the group an image is put in, lines 130-134
groupKey(image) == monthYearOf(image.timestamp)

\* the count of a group after the forEach: one count++ for every image pushed, line 147
groupCount(imgs, key) == Cardinality({j \in 1..Len(imgs) : groupKey(imgs[j]) = key})

\* the photos of a group after the forEach: the images pushed, in order, line 146
groupPhotos(imgs, key) == SelectSeq(imgs, LAMBDA image : groupKey(image) = key)

\* the group its first image creates and the forEach fills, lines 136-147
groupOf(imgs, first) ==
    [key |-> groupKey(first),
     photos |-> groupPhotos(imgs, groupKey(first)),
     count |-> groupCount(imgs, groupKey(first)),
     monthName |-> getMonth(first.timestamp),
     year |-> getFullYear(first.timestamp),
     sortDate |-> first.timestamp]

\* groupImagesByMonth, lines 126-151: groupedImages is the sequence of the
\* object's entries in insertion order; a group is created by the first
\* image of its month, which gives it monthName, year and sortDate
groupImagesByMonth(imgs) ==
    LET n == Len(imgs)
        keys == Array([i \in 1..n |-> groupKey(imgs[i])])
        firsts == SelectSeq(Array([i \in 1..n |-> i]),
                            LAMBDA i : \A j \in 1..(i - 1) : keys[j] # keys[i])
    IN  Array([g \in 1..Len(firsts) |-> groupOf(imgs, imgs[firsts[g]])])

\* the comparator's key of a group, line 156
groupSortKey(group) == DateValue(group.sortDate)

\* getSortedMonthGroups, lines 154-157
getSortedMonthGroups(groups) ==
    LET order == stableOrderDesc(Array([i \in 1..Len(groups) |-> groupSortKey(groups[i])]))
    IN  Array([r \in 1..Len(groups) |-> groups[order[r]]])

\* variant: the query is compared as typed, only the image's text is lowered
matchesSearch_queryAsTyped(img, query) ==
    \/ /\ img.caption # <<>>
       /\ includes(toLowerCase(img.caption), query)
    \/ includes(toLowerCase(formatDate(img.timestamp)), query)

\* the predicate of the filter of updatePagination, lines 72-73
matchesSearch(img, query) ==
    \/ /\ img.caption # <<>>
       /\ includes(toLowerCase(img.caption), toLowerCase(query))
    \/ includes(toLowerCase(formatDate(img.timestamp)), toLowerCase(query))

filterImages(imgs, query) ==
    IF trim(query) # <<>>
    THEN SelectSeq(imgs, LAMBDA img : matchesSearch(img, query))
    ELSE imgs

\* Math.ceil(n / d) of two naturals
ceilDiv(n, d) == (n + d - 1) \div d

\* Array.prototype.slice(from, to) with 0 <= from
slice(s, from, to) == SubSeq(s, from + 1, Min(to, Len(s)))

\* variant: Math.floor in place of Math.ceil
pageTotal_floor(filtered) == Len(filtered) \div photosPerPage

\* line 78
pageTotal(filtered) == ceilDiv(Len(filtered), photosPerPage)

\* variant: the page number taken as 0-based
pageStart_zeroBased(page) == page * photosPerPage

\* startIndex, line 86
pageStart(page) == (page - 1) * photosPerPage

\* lines 81-83
pageValid(page, total) == IF page > total THEN 1 ELSE page

\* updatePagination: the new totalPages, currentPage, displayedImages and the
\* local filteredImages, from images, searchQuery and currentPage
updatePagination(imgs, query, page) ==
    LET filtered == filterImages(imgs, query)
        total == pageTotal(filtered)
        cur == pageValid(page, total)
        startIndex == pageStart(cur)
        endIndex == startIndex + photosPerPage
    IN  [totalPages |-> total,
         currentPage |-> cur,
         displayedImages |-> slice(filtered, startIndex, endIndex),
         filteredImages |-> filtered]


(***************************************************************************)
(* State                                                                   *)
(***************************************************************************)
\* no gesture yet: the closure variables of addSwipeSupport, lines 600-604
NoTouch == [deltaX |-> 0, deltaY |-> 0, swipeTime |-> 0]

\* currentImage: {} of the constructor
NoImage == [id |-> 0, timestamp |-> 0, caption |-> <<>>]

\* images[i] of an index outside the array
UndefinedImage == [id |-> -1, timestamp |-> 0, caption |-> <<>>]

\* images[i], JavaScript's 0-based indexing
at(s, i) == IF 0 <= i /\ i < Len(s) THEN s[i + 1] ELSE UndefinedImage

\* images.findIndex(img => img.id === image.id)
findIndex(s, id) ==
    IF \E i \in 1..Len(s) : s[i].id = id
    THEN (CHOOSE i \in 1..Len(s) :
              s[i].id = id /\ \A j \in 1..(i - 1) : s[j].id # id) - 1
    ELSE -1

\* showNotification(message, type): the message is its kind and the number in it
Note(type, text, n) == [type |-> type, text |-> text, n |-> n]

lightboxVars == <<lightboxOpen, currentImage, currentIndex, slideshowActive,
                  slideshowInterval, bodyOverflow, timers>>
selectionVars == <<selectedPhotos, selectionMode>>
pageVars == <<currentPage, totalPages, displayedImages, filteredImages>>
bootVars == <<autoRefresh, phase>>
touchVars == <<touch>>
downloadVars == <<timeouts, batches>>
webhookVars == <<delivery, response, errorLog>>
serverVars == <<store, webhookVars>>
renderVars == <<pageNumbers>>
networkVars == <<online>>
historyVars == <<loadedCount>>
otherVars == <<renderVars, networkVars, historyVars>>
extraVars == <<touchVars, downloadVars, serverVars, otherVars>>
dataVars == <<loading, images, groupedImages, searchQuery, viewMode, pending, storeLen>>

\* galleryApp() but for its page counters, over a store of n records
ConstructData(n) ==
    /\ loading = TRUE
    /\ images = <<>>
    /\ displayedImages = <<>>
    /\ groupedImages = <<>>
    /\ lightboxOpen = FALSE
    /\ currentImage = NoImage
    /\ currentIndex = 0
    /\ searchQuery = <<>>
    /\ selectedPhotos = <<>>
    /\ selectionMode = FALSE
    /\ slideshowActive = FALSE
    /\ slideshowInterval = 0
    /\ viewMode = "grouped"
    /\ bodyOverflow = ""
    /\ timers = {}
    /\ autoRefresh = FALSE
    /\ phase = "new"
    /\ pending = <<>>
    /\ notes = <<>>
    /\ filteredImages = <<>>
    /\ lastOp = "construct"
    /\ touch = NoTouch
    /\ timeouts = <<>>
    /\ batches = <<>>
    /\ store = storedRecords(0, n)
    /\ delivery = NoDelivery
    /\ response = NoResponse
    /\ errorLog = <<>>
    /\ pageNumbers = <<>>
    /\ online = TRUE
    /\ loadedCount = 0
    /\ storeLen = n

\* galleryApp(): the object as constructed, lines 4-21
Construct(n) ==
    /\ ConstructData(n)
    /\ currentPage = 1
    /\ totalPages = 1

(***************************************************************************)
(* loadImages and its callers                                              *)
(***************************************************************************)
\* a call suspended at its fetch: who called, what the server will answer
\* (its store when the request arrived), the currentCount of the poll's
\* closure, new_photos_added of fetchHistory's result, and (history) the
\* number of images held when the call began and the number of records the
\* gallery had last loaded by then
Call(kind, caller, snap, currentCount, added) ==
    [kind |-> kind, caller |-> caller, snap |-> snap,
     currentCount |-> currentCount, added |-> added,
     before |-> IF caller = "poll" THEN Len(images) ELSE 0,
     known |-> IF caller = "poll" THEN loadedCount ELSE 0]

RemoveAt(s, i) == SubSeq(s, 1, i - 1) \o SubSeq(s, i + 1, Len(s))

\* loadImages up to its await fetch('/api/images'), lines 36-40
beginLoad(caller, currentCount, added) ==
    /\ loading' = TRUE
    /\ pending' = Append(pending, Call("load", caller, storeLen, currentCount, added))

\* init(), lines 24-27: runs once, up to the await of loadImages
InitStart ==
    /\ phase = "new"
    /\ phase' = "up"
    /\ beginLoad("init", 0, 0)
    /\ notes' = <<>>
    /\ lastOp' = "init"
    /\ UNCHANGED extraVars
    /\ UNCHANGED <<images, groupedImages, searchQuery, viewMode, autoRefresh, storeLen>>
    /\ UNCHANGED <<lightboxVars, selectionVars, pageVars>>

\* the setInterval callback of setupAutoRefresh up to its await, lines 464-466
currentCountOf(imgs) == Len(imgs)

PollStart ==
    /\ autoRefresh
    /\ Len(pending) < MaxPending
    /\ beginLoad("poll", currentCountOf(images), 0)
    /\ notes' = <<>>
    /\ lastOp' = "pollStart"
    /\ UNCHANGED extraVars
    /\ UNCHANGED <<images, groupedImages, searchQuery, viewMode, storeLen>>
    /\ UNCHANGED <<lightboxVars, selectionVars, pageVars, bootVars>>

\* refreshGallery up to its await, lines 507-508
RefreshStart ==
    /\ phase = "up"
    /\ Len(pending) < MaxPending
    /\ beginLoad("refresh", 0, 0)
    /\ notes' = <<>>
    /\ lastOp' = "refreshStart"
    /\ UNCHANGED extraVars
    /\ UNCHANGED <<images, groupedImages, searchQuery, viewMode, storeLen>>
    /\ UNCHANGED <<lightboxVars, selectionVars, pageVars, bootVars>>

\* the notifications of a caller after its await this.loadImages() returns:
\* setupAutoRefresh lines 469-472, refreshGallery line 510, fetchHistory lines 525-532
\* variant: the poll reports the number of images held, not the number added
newPhotosNotes_total(count, currentCount) ==
    IF count > currentCount
    THEN <<Note("success", "new photos added", count)>>
    ELSE <<>>

\* the poll's notification, lines 469-472
newPhotosNotes(count, currentCount) ==
    IF count > currentCount
    THEN <<Note("success", "new photos added", count - currentCount)>>
    ELSE <<>>

refreshNotes == <<Note("success", "Gallery refreshed", 0)>>

historyNotes(added) ==
    IF added > 0
    THEN <<Note("success", "Found historical photos", added)>>
    ELSE <<Note("info", "No new historical photos found", 0)>>

afterLoadNotes(call, count) ==
    CASE call.caller = "poll" -> newPhotosNotes(count, call.currentCount)
      [] call.caller = "refresh" -> refreshNotes
      [] call.caller = "history" -> historyNotes(call.added)
      [] OTHER -> <<>>

\* variant: the decoded response is dropped
loadedImages_none(data) == <<>>

\* what loadImages makes of a decoded response, lines 44-54
loadedImages(data) == sortNewestFirst(data)

\* variant: the catch block of the earlier loadImages, which clears images alone
loadFailed_imagesOnly ==
    /\ images' = <<>>
    /\ UNCHANGED <<displayedImages, groupedImages, currentPage, totalPages, filteredImages>>

\* the catch block of loadImages, lines 56-60
loadFailed ==
    /\ images' = <<>>
    /\ displayedImages' = <<>>
    /\ UNCHANGED <<groupedImages, currentPage, totalPages, filteredImages>>

\* lines 44-54
loadSucceeded(data) ==
    LET imgs == loadedImages(data)
        r == updatePagination(imgs, searchQuery, currentPage)
    IN  /\ images' = imgs
        /\ groupedImages' = groupImagesByMonth(imgs)
        /\ totalPages' = r.totalPages
        /\ currentPage' = r.currentPage
        /\ displayedImages' = r.displayedImages
        /\ filteredImages' = r.filteredImages

\* variant: no finally block; loading stays as the call set it
loadingAfterLoad_noFinally == loading

\* the finally block of loadImages, line 62
loadingAfterLoad == FALSE

\* a fetch of /api/images settles: the rest of loadImages (lines 41-63) and the
\* rest of its caller run in one turn of the event loop
LoadFinish(i, outcome) ==
    LET call == pending[i] IN
    /\ call.kind = "load"
    /\ pending' = RemoveAt(pending, i)
    /\ CASE outcome = "fail" -> loadFailed
         [] outcome = "noimages" -> loadSucceeded(<<>>)
         [] OTHER -> loadSucceeded(apiImages(call.snap))
    /\ loading' = loadingAfterLoad
    /\ autoRefresh' = (autoRefresh \/ call.caller = "init")
    /\ notes' = afterLoadNotes(call, Len(images'))
    /\ lastOp' = IF outcome = "fail" THEN "loadFailed" ELSE "loadImages"
    /\ loadedCount' = IF outcome = "ok" THEN call.snap ELSE loadedCount
    /\ UNCHANGED <<touchVars, downloadVars, serverVars, renderVars, networkVars>>
    /\ UNCHANGED <<searchQuery, viewMode, phase, storeLen>>
    /\ UNCHANGED <<lightboxVars, selectionVars>>

\* the server can no longer be reached, or can be reached again
ServerLost ==
    /\ online
    /\ online' = FALSE
    /\ notes' = <<>>
    /\ lastOp' = "serverLost"
    /\ UNCHANGED <<dataVars, lightboxVars, selectionVars, pageVars, bootVars>>
    /\ UNCHANGED <<touchVars, downloadVars, serverVars, renderVars, historyVars>>

ServerBack ==
    /\ ~online
    /\ online' = TRUE
    /\ notes' = <<>>
    /\ lastOp' = "serverBack"
    /\ UNCHANGED <<dataVars, lightboxVars, selectionVars, pageVars, bootVars>>
    /\ UNCHANGED <<touchVars, downloadVars, serverVars, renderVars, historyVars>>

\* a fetch of /api/images settles as the network has it: with the server's
\* answer, or rejected (line 40 throws into the catch block)
FetchSettles(i) == LoadFinish(i, IF online THEN "ok" ELSE "fail")

LoadOk == \E i \in 1..Len(pending) : LoadFinish(i, "ok")
LoadNoImages == \E i \in 1..Len(pending) : LoadFinish(i, "noimages")
LoadFail == \E i \in 1..Len(pending) : LoadFinish(i, "fail")

\* the webhook receiver appends records: the store grows to n records
Deliver(n) ==
    /\ n > storeLen
    /\ storeLen' = n
    /\ store' = store \o storedRecords(storeLen, n)
    /\ notes' = <<>>
    /\ lastOp' = "webhook"
    /\ UNCHANGED <<touchVars, downloadVars, webhookVars, otherVars>>
    /\ UNCHANGED <<loading, images, groupedImages, searchQuery, viewMode, pending>>
    /\ UNCHANGED <<lightboxVars, selectionVars, pageVars, bootVars>>


\* fetchHistory up to its await fetch('/api/fetch-history'), lines 514-518
FetchHistoryStart ==
    /\ phase = "up"
    /\ Len(pending) < MaxPending
    /\ pending' = Append(pending, Call("history", "history", storeLen, 0, 0))
    /\ notes' = <<Note("info", "Fetching photos from Telegram history", 0)>>
    /\ lastOp' = "fetchHistoryStart"
    /\ UNCHANGED extraVars
    /\ UNCHANGED <<loading, images, groupedImages, searchQuery, viewMode, storeLen>>
    /\ UNCHANGED <<lightboxVars, selectionVars, pageVars, bootVars>>

\* the fetch of /api/fetch-history rejects or does not decode, lines 536-539
HistoryFail(i) ==
    /\ pending[i].kind = "history"
    /\ pending' = RemoveAt(pending, i)
    /\ notes' = <<Note("error", "Failed to fetch history", 0)>>
    /\ lastOp' = "fetchHistory"
    /\ UNCHANGED extraVars
    /\ UNCHANGED <<loading, images, groupedImages, searchQuery, viewMode, storeLen>>
    /\ UNCHANGED <<lightboxVars, selectionVars, pageVars, bootVars>>

\* it answers with a status other than 'success', lines 533-535
HistoryError(i) ==
    /\ pending[i].kind = "history"
    /\ pending' = RemoveAt(pending, i)
    /\ notes' = <<Note("error", "Error", 0)>>
    /\ lastOp' = "fetchHistory"
    /\ UNCHANGED extraVars
    /\ UNCHANGED <<loading, images, groupedImages, searchQuery, viewMode, storeLen>>
    /\ UNCHANGED <<lightboxVars, selectionVars, pageVars, bootVars>>

\* it answers {status: 'success', new_photos_added: n - storeLen}, the server
\* having added these records to its store; fetchHistory goes on to its
\* await this.loadImages(), lines 521-523
HistorySuccess(i, n) ==
    /\ pending[i].kind = "history"
    /\ n >= storeLen
    /\ storeLen' = n
    /\ store' = store \o storedRecords(storeLen, n)
    /\ loading' = TRUE
    /\ pending' = [pending EXCEPT ![i] = Call("load", "history", n, 0, n - storeLen)]
    /\ notes' = <<>>
    /\ lastOp' = "fetchHistoryReload"
    /\ UNCHANGED <<touchVars, downloadVars, webhookVars, otherVars>>
    /\ UNCHANGED <<images, groupedImages, searchQuery, viewMode>>
    /\ UNCHANGED <<lightboxVars, selectionVars, pageVars, bootVars>>

(***************************************************************************)
(* Pagination, search, view mode                                           *)
(***************************************************************************)
\* this.updatePagination() on the state as it will be
paginate(query, page) ==
    LET r == updatePagination(images, query, page)
    IN  /\ totalPages' = r.totalPages
        /\ currentPage' = r.currentPage
        /\ displayedImages' = r.displayedImages
        /\ filteredImages' = r.filteredImages

\* the condition of goToPage, line 95
pageAccepted(page, total) == page >= 1 /\ page <= total

\* goToPage(page), lines 94-101
goToPage(page) ==
    IF pageAccepted(page, totalPages)
    THEN paginate(searchQuery, page)
    ELSE UNCHANGED pageVars

GoToPage(page) ==
    /\ goToPage(page)
    /\ notes' = <<>>
    /\ lastOp' = "goToPage"
    /\ UNCHANGED extraVars
    /\ UNCHANGED <<loading, images, groupedImages, searchQuery, viewMode, pending, storeLen>>
    /\ UNCHANGED <<lightboxVars, selectionVars, bootVars>>

\* nextPage, lines 104-106
NextPage ==
    /\ goToPage(currentPage + 1)
    /\ notes' = <<>>
    /\ lastOp' = "nextPage"
    /\ UNCHANGED extraVars
    /\ UNCHANGED <<loading, images, groupedImages, searchQuery, viewMode, pending, storeLen>>
    /\ UNCHANGED <<lightboxVars, selectionVars, bootVars>>

\* prevPage, lines 109-111
PrevPage ==
    /\ goToPage(currentPage - 1)
    /\ notes' = <<>>
    /\ lastOp' = "prevPage"
    /\ UNCHANGED extraVars
    /\ UNCHANGED <<loading, images, groupedImages, searchQuery, viewMode, pending, storeLen>>
    /\ UNCHANGED <<lightboxVars, selectionVars, bootVars>>

\* variant: searchPhotos and toggleViewMode stay on the page they were on
firstPage_keepsPage == currentPage

\* the page searchPhotos and toggleViewMode reset to, lines 115 and 162
firstPage == 1

\* the search box is bound to searchQuery and runs searchPhotos on input:
\* the user's text becomes searchQuery, then searchPhotos, lines 114-117
SearchPhotos(q) ==
    /\ searchQuery' = q
    /\ paginate(q, firstPage)
    /\ notes' = <<>>
    /\ lastOp' = "searchPhotos"
    /\ UNCHANGED extraVars
    /\ UNCHANGED <<loading, images, groupedImages, viewMode, pending, storeLen>>
    /\ UNCHANGED <<lightboxVars, selectionVars, bootVars>>

\* clearSearch, lines 120-123
ClearSearch ==
    /\ searchQuery' = <<>>
    /\ paginate(<<>>, firstPage)
    /\ notes' = <<>>
    /\ lastOp' = "clearSearch"
    /\ UNCHANGED extraVars
    /\ UNCHANGED <<loading, images, groupedImages, viewMode, pending, storeLen>>
    /\ UNCHANGED <<lightboxVars, selectionVars, bootVars>>

\* toggleViewMode, lines 160-164
ToggleViewMode ==
    /\ viewMode' = IF viewMode = "grouped" THEN "grid" ELSE "grouped"
    /\ paginate(searchQuery, firstPage)
    /\ notes' = <<>>
    /\ lastOp' = "toggleViewMode"
    /\ UNCHANGED extraVars
    /\ UNCHANGED <<loading, images, groupedImages, searchQuery, pending, storeLen>>
    /\ UNCHANGED <<lightboxVars, selectionVars, bootVars>>

\* the most page buttons getPageNumbers draws, line 577
maxVisible == 5

\* the first button of the long pager, line 588
pagerStart(current) == Max(1, current - 2)

\* variant: the last button is not held back by the page count
pagerEnd_unclamped(total, start) == start + maxVisible - 1

\* the last button of the long pager, line 589
pagerEnd(total, start) == Min(total, start + maxVisible - 1)

\* the pages first..last, pushed in order, lines 581-583 and 591-593
pageRun(first, last) ==
    IF last < first THEN <<>> ELSE Array([i \in 1..(last - first + 1) |-> first + i - 1])

\* getPageNumbers, lines 575-596
getPageNumbers(current, total) ==
    IF total <= maxVisible
    THEN pageRun(1, total)
    ELSE pageRun(pagerStart(current), pagerEnd(total, pagerStart(current)))

\* the template draws the page buttons
GetPageNumbers ==
    /\ pageNumbers' = getPageNumbers(currentPage, totalPages)
    /\ notes' = <<>>
    /\ lastOp' = "getPageNumbers"
    /\ UNCHANGED <<dataVars, lightboxVars, selectionVars, pageVars, bootVars>>
    /\ UNCHANGED <<touchVars, downloadVars, serverVars, networkVars, historyVars>>


(***************************************************************************)
(* Lightbox and slideshow                                                  *)
(***************************************************************************)
\* openLightbox(image), lines 186-196
OpenLightbox(image) ==
    /\ currentImage' = image
    /\ currentIndex' = findIndex(images, image.id)
    /\ lightboxOpen' = TRUE
    /\ bodyOverflow' = "hidden"
    /\ notes' = <<>>
    /\ lastOp' = "openLightbox"
    /\ UNCHANGED extraVars
    /\ UNCHANGED <<loading, images, groupedImages, searchQuery, viewMode, pending, storeLen>>
    /\ UNCHANGED <<slideshowActive, slideshowInterval, timers>>
    /\ UNCHANGED <<selectionVars, pageVars, bootVars>>

\* the photos the page shows: the displayed page and the month groups
shownImages ==
    {displayedImages[i] : i \in 1..Len(displayedImages)}
        \cup UNION {{groupedImages[g].photos[i] : i \in 1..Len(groupedImages[g].photos)} :
                       g \in 1..Len(groupedImages)}

\* closeLightbox, lines 199-205
CloseLightbox ==
    /\ lightboxOpen
    /\ lightboxOpen' = FALSE
    /\ bodyOverflow' = "auto"
    /\ notes' = <<>>
    /\ lastOp' = "closeLightbox"
    /\ UNCHANGED extraVars
    /\ UNCHANGED <<loading, images, groupedImages, searchQuery, viewMode, pending, storeLen>>
    /\ UNCHANGED <<currentImage, currentIndex, slideshowActive, slideshowInterval, timers>>
    /\ UNCHANGED <<selectionVars, pageVars, bootVars>>

\* the index nextImage moves to, lines 216-217
nextIndex(index, len) == IF index < len - 1 THEN index + 1 ELSE index

\* nextImage, lines 215-220
nextImage ==
    /\ currentIndex' = nextIndex(currentIndex, Len(images))
    /\ currentImage' = IF currentIndex < Len(images) - 1
                       THEN at(images, currentIndex')
                       ELSE currentImage

\* variant: prevImage without its test
prevIndex_unguarded(index) == index - 1

\* the index prevImage moves to, lines 224-225
prevIndex(index) == IF index > 0 THEN index - 1 ELSE index

\* prevImage, lines 223-228
prevImage ==
    /\ currentIndex' = prevIndex(currentIndex)
    /\ currentImage' = IF currentIndex > 0
                       THEN at(images, currentIndex')
                       ELSE currentImage

\* the lightbox's next button, and ArrowRight of the keydown handler (lines
\* 778-783), whose own test repeats that of nextImage
NextImage ==
    /\ lightboxOpen
    /\ nextImage
    /\ notes' = <<>>
    /\ lastOp' = "nextImage"
    /\ UNCHANGED extraVars
    /\ UNCHANGED <<loading, images, groupedImages, searchQuery, viewMode, pending, storeLen>>
    /\ UNCHANGED <<lightboxOpen, slideshowActive, slideshowInterval, bodyOverflow, timers>>
    /\ UNCHANGED <<selectionVars, pageVars, bootVars>>

\* the lightbox's previous button, and ArrowLeft (lines 772-777)
PrevImage ==
    /\ lightboxOpen
    /\ prevImage
    /\ notes' = <<>>
    /\ lastOp' = "prevImage"
    /\ UNCHANGED extraVars
    /\ UNCHANGED <<loading, images, groupedImages, searchQuery, viewMode, pending, storeLen>>
    /\ UNCHANGED <<lightboxOpen, slideshowActive, slideshowInterval, bodyOverflow, timers>>
    /\ UNCHANGED <<selectionVars, pageVars, bootVars>>

\* variant: Escape closes the lightbox and leaves the page as it was
KeyEscape_keepsOverflow ==
    /\ lightboxOpen
    /\ lightboxOpen' = FALSE
    /\ notes' = <<>>
    /\ lastOp' = "keyEscape"
    /\ UNCHANGED extraVars
    /\ UNCHANGED <<loading, images, groupedImages, searchQuery, viewMode, pending, storeLen>>
    /\ UNCHANGED <<currentImage, currentIndex, slideshowActive, slideshowInterval, timers>>
    /\ UNCHANGED <<bodyOverflow, selectionVars, pageVars, bootVars>>

\* Escape with the lightbox open, lines 768-771
KeyEscape ==
    /\ lightboxOpen
    /\ lightboxOpen' = FALSE
    /\ bodyOverflow' = "auto"
    /\ notes' = <<>>
    /\ lastOp' = "keyEscape"
    /\ UNCHANGED extraVars
    /\ UNCHANGED <<loading, images, groupedImages, searchQuery, viewMode, pending, storeLen>>
    /\ UNCHANGED <<currentImage, currentIndex, slideshowActive, slideshowInterval, timers>>
    /\ UNCHANGED <<selectionVars, pageVars, bootVars>>

\* setInterval's handle: one no running timer has
newTimer == CHOOSE t \in 1..MaxTimers : t \notin timers

\* the state startSlideshow sets, lines 343-347
slideshowStartIndex == 0

\* startSlideshow, lines 340-357
startSlideshow ==
    IF Len(images) = 0
    THEN /\ UNCHANGED lightboxVars
         /\ notes' = <<>>
    ELSE /\ slideshowActive' = TRUE
         /\ currentIndex' = slideshowStartIndex
         /\ currentImage' = at(images, slideshowStartIndex)
         /\ lightboxOpen' = TRUE
         /\ bodyOverflow' = "hidden"
         /\ slideshowInterval' = newTimer
         /\ timers' = timers \cup {newTimer}
         /\ notes' = <<Note("success", "Slideshow started", 0)>>

\* stopSlideshow, lines 360-367, on the timers and the handle given
timersAfterStop(ts, handle) == IF handle # 0 THEN ts \ {handle} ELSE ts

stopSlideshow ==
    /\ slideshowActive' = FALSE
    /\ timers' = timersAfterStop(timers, slideshowInterval)
    /\ slideshowInterval' = 0
    /\ notes' = <<Note("info", "Slideshow stopped", 0)>>

\* the slideshow button
StartSlideshow ==
    /\ Len(images) = 0 \/ Cardinality(timers) < MaxTimers
    /\ startSlideshow
    /\ lastOp' = "startSlideshow"
    /\ UNCHANGED extraVars
    /\ UNCHANGED <<loading, images, groupedImages, searchQuery, viewMode, pending, storeLen>>
    /\ UNCHANGED <<selectionVars, pageVars, bootVars>>

\* the stop button
StopSlideshow ==
    /\ stopSlideshow
    /\ lastOp' = "stopSlideshow"
    /\ UNCHANGED extraVars
    /\ UNCHANGED <<loading, images, groupedImages, searchQuery, viewMode, pending, storeLen>>
    /\ UNCHANGED <<lightboxOpen, currentImage, currentIndex, bodyOverflow>>
    /\ UNCHANGED <<selectionVars, pageVars, bootVars>>

\* the space key with the lightbox open, lines 799-806
KeySpace ==
    /\ lightboxOpen
    /\ IF slideshowActive
       THEN /\ stopSlideshow
            /\ UNCHANGED <<lightboxOpen, currentImage, currentIndex, bodyOverflow>>
       ELSE /\ Len(images) = 0 \/ Cardinality(timers) < MaxTimers
            /\ startSlideshow
    /\ lastOp' = "keySpace"
    /\ UNCHANGED extraVars
    /\ UNCHANGED <<loading, images, groupedImages, searchQuery, viewMode, pending, storeLen>>
    /\ UNCHANGED <<selectionVars, pageVars, bootVars>>

\* variant: the callback stops the slideshow one tick after the last image
tickStops_afterLast(index, len) == index > len - 1

\* whether the interval callback calls stopSlideshow, line 351
tickStops(index, len) == index = len - 1

\* the setInterval callback of startSlideshow, lines 349-354, of timer t
SlideshowTick(t) ==
    /\ t \in timers
    /\ nextImage
    /\ IF tickStops(currentIndex', Len(images))
       THEN stopSlideshow
       ELSE /\ UNCHANGED <<slideshowActive, slideshowInterval, timers>>
            /\ notes' = <<>>
    /\ lastOp' = "tick"
    /\ UNCHANGED extraVars
    /\ UNCHANGED <<loading, images, groupedImages, searchQuery, viewMode, pending, storeLen>>
    /\ UNCHANGED <<lightboxOpen, bodyOverflow>>
    /\ UNCHANGED <<selectionVars, pageVars, bootVars>>

(***************************************************************************)
(* The webhook receiver and the read API                                   *)
(***************************************************************************)
\* POST to the webhook endpoint with delivery d
Webhook(d) ==
    /\ delivery' = d
    /\ store' = storeAfter(store, d)
    /\ storeLen' = Len(store')
    /\ response' = webhookResponse(ingestion(store, d))
    /\ errorLog' = webhookLog(ingestion(store, d))
    /\ notes' = <<>>
    /\ lastOp' = "webhookDelivery"
    /\ UNCHANGED <<loading, images, groupedImages, searchQuery, viewMode, pending>>
    /\ UNCHANGED <<lightboxVars, selectionVars, pageVars, bootVars, downloadVars>>
    /\ UNCHANGED <<touchVars, otherVars>>

\* the read API's answer over the records stored
listImages(records) == [images |-> records]

\* GET /api/images
GetImages ==
    /\ response' = listImages(store)
    /\ errorLog' = <<>>
    /\ notes' = <<>>
    /\ lastOp' = "getImages"
    /\ UNCHANGED <<store, delivery, dataVars>>
    /\ UNCHANGED <<lightboxVars, selectionVars, pageVars, bootVars, downloadVars>>
    /\ UNCHANGED <<touchVars, otherVars>>

(***************************************************************************)
(* Selection and batch download                                            *)
(***************************************************************************)
\* variant: no photo counts as selected
isPhotoSelected_never(selected, photo) == FALSE

\* this.selectedPhotos.some(p => p.id === photo.id): isPhotoSelected,
\* lines 263-265
isPhotoSelected(selected, photo) == \E k \in 1..Len(selected) : selected[k].id = photo.id

\* variant: a click always adds the photo
togglePhotoSelection_pushOnly(selected, photo) == Append(selected, photo)

\* togglePhotoSelection(photo) on selectedPhotos, lines 253-260
togglePhotoSelection(selected, photo) ==
    IF findIndex(selected, photo.id) > -1
    THEN RemoveAt(selected, findIndex(selected, photo.id) + 1)
    ELSE Append(selected, photo)

\* selectAllVisible on selectedPhotos, lines 268-274: the forEach over the
\* first k displayed photos
RECURSIVE selectAll(_, _, _)
selectAll(selected, displayed, k) ==
    IF k = 0 THEN selected
    ELSE LET before == selectAll(selected, displayed, k - 1)
         IN  IF isPhotoSelected(before, displayed[k])
             THEN before
             ELSE Append(before, displayed[k])

selectAllVisible(selected, displayed) == selectAll(selected, displayed, Len(displayed))

\* toggleSelectionMode, lines 245-250
toggleSelectionMode ==
    /\ selectionMode' = ~selectionMode
    /\ selectedPhotos' = IF ~selectionMode' THEN <<>> ELSE selectedPhotos

\* a click on a photo in selection mode
TogglePhotoSelection(photo) ==
    /\ selectedPhotos' = togglePhotoSelection(selectedPhotos, photo)
    /\ notes' = <<>>
    /\ lastOp' = "togglePhotoSelection"
    /\ UNCHANGED <<selectionMode, dataVars, lightboxVars, pageVars, bootVars, extraVars>>

\* the select-all button
SelectAllVisible ==
    /\ selectedPhotos' = selectAllVisible(selectedPhotos, displayedImages)
    /\ notes' = <<>>
    /\ lastOp' = "selectAllVisible"
    /\ UNCHANGED <<selectionMode, dataVars, lightboxVars, pageVars, bootVars, extraVars>>

\* clearSelection, lines 277-279
ClearSelection ==
    /\ selectedPhotos' = <<>>
    /\ notes' = <<>>
    /\ lastOp' = "clearSelection"
    /\ UNCHANGED <<selectionMode, dataVars, lightboxVars, pageVars, bootVars, extraVars>>

\* the selection-mode button
ToggleSelectionMode ==
    /\ toggleSelectionMode
    /\ notes' = <<>>
    /\ lastOp' = "toggleSelectionMode"
    /\ UNCHANGED <<dataVars, lightboxVars, pageVars, bootVars, extraVars>>

\* Ctrl+A (or Meta+A) with the lightbox closed, lines 813-822
KeySelectAll ==
    /\ ~lightboxOpen
    /\ selectionMode' = TRUE
    /\ selectedPhotos' = selectAllVisible(selectedPhotos, displayedImages)
    /\ notes' = <<>>
    /\ lastOp' = "keySelectAll"
    /\ UNCHANGED <<dataVars, lightboxVars, pageVars, bootVars, extraVars>>

\* Escape with the lightbox closed, lines 823-827
KeyEscapeSelection ==
    /\ ~lightboxOpen
    /\ IF selectionMode THEN toggleSelectionMode ELSE UNCHANGED selectionVars
    /\ notes' = <<>>
    /\ lastOp' = "keyEscapeSelection"
    /\ UNCHANGED <<dataVars, lightboxVars, pageVars, bootVars, extraVars>>

\* the delays of downloadSelected, lines 302 and 309
staggerMs == 500
completionExtraMs == 1000

\* a callback set by setTimeout: what it does, the photo its closure holds,
\* the call it belongs to, and the ms until it is due
Timeout(kind, photo, batch, due) ==
    [kind |-> kind, photo |-> photo, batch |-> batch, due |-> due]

\* the callbacks the for loop of downloadSelected sets, lines 292-303
downloadTimeouts(selected, batch) ==
    Array([k \in 1..Len(selected) |->
              Timeout("download", selected[k], batch, (k - 1) * staggerMs)])

\* the callback set after the loop, lines 305-309
completionTimeout(selected, batch) ==
    Timeout("complete", NoImage, batch, Len(selected) * staggerMs + completionExtraMs)

\* downloadSelected, lines 282-310
DownloadSelected ==
    /\ IF Len(selectedPhotos) = 0
       THEN /\ notes' = <<Note("error", "Please select photos first", 0)>>
            /\ UNCHANGED downloadVars
       ELSE /\ Len(batches) < MaxBatches
            /\ notes' = <<Note("info", "Preparing photos for download", Len(selectedPhotos))>>
            /\ timeouts' = timeouts
                    \o downloadTimeouts(selectedPhotos, Len(batches) + 1)
                    \o <<completionTimeout(selectedPhotos, Len(batches) + 1)>>
            /\ batches' = Append(batches, [selected |-> selectedPhotos,
                                           downloaded |-> <<>>,
                                           reported |-> -1])
    /\ lastOp' = "downloadSelected"
    /\ UNCHANGED <<selectionVars, dataVars, lightboxVars, pageVars, bootVars>>
    /\ UNCHANGED <<touchVars, otherVars>>
    /\ UNCHANGED serverVars

\* the ms until the next callback is due
nextDue == CHOOSE d \in {timeouts[k].due : k \in 1..Len(timeouts)} :
               \A k \in 1..Len(timeouts) : d <= timeouts[k].due

\* time passes until the next callback is due
TimePasses ==
    /\ timeouts # <<>>
    /\ nextDue > 0
    /\ timeouts' = Array([k \in 1..Len(timeouts) |->
                             [timeouts[k] EXCEPT !.due = @ - nextDue]])
    /\ notes' = <<>>
    /\ lastOp' = "timePasses"
    /\ UNCHANGED <<batches, selectionVars, dataVars, lightboxVars, pageVars, bootVars>>
    /\ UNCHANGED <<touchVars, otherVars>>
    /\ UNCHANGED serverVars

\* the callback the timer runs next: the first set of those that are due
dueTimeout == CHOOSE k \in 1..Len(timeouts) :
                  /\ timeouts[k].due = 0
                  /\ \A j \in 1..(k - 1) : timeouts[j].due # 0

\* the number the completion step reports, line 306
reportedCount == Len(selectedPhotos)

\* a callback of downloadSelected runs: a download (lines 295-301) or the
\* completion step (lines 306-308)
RunTimeout ==
    /\ \E k \in 1..Len(timeouts) : timeouts[k].due = 0
    /\ LET t == timeouts[dueTimeout] IN
       /\ timeouts' = RemoveAt(timeouts, dueTimeout)
       /\ IF t.kind = "download"
          THEN /\ batches' = [batches EXCEPT ![t.batch].downloaded = Append(@, t.photo)]
               /\ notes' = <<>>
               /\ lastOp' = "download"
               /\ UNCHANGED selectionVars
          ELSE /\ batches' = [batches EXCEPT ![t.batch].reported = reportedCount]
               /\ notes' = <<Note("success", "photos downloaded", reportedCount)>>
               /\ selectedPhotos' = <<>>
               /\ selectionMode' = FALSE
               /\ lastOp' = "downloadComplete"
    /\ UNCHANGED <<dataVars, lightboxVars, pageVars, bootVars, touchVars, otherVars, serverVars>>

(***************************************************************************)
(* Touch gestures on the lightbox                                          *)
(***************************************************************************)
\* handleSwipe's thresholds, lines 643-644
minSwipeDistance == 50
maxSwipeTime == 300

Abs(x) == IF x < 0 THEN 0 - x ELSE x

\* the names handleSwipe reads at lines 640-642
swipeNames == {"startX", "startY", "endX", "endY", "startTime"}

\* the names among them that the scopes around handleSwipe declare:
\* handleSwipe is a method of the object galleryApp returns (line 639), and
\* the five are locals of another method, addSwipeSupport (lines 600-604),
\* written by its touchStart and touchEnd; neither galleryApp nor the
\* script declares them
handleSwipeScope == {}

\* line 640, const deltaX = endX - startX: reading a name no scope declares
\* throws a ReferenceError, which ends handleSwipe and the touchend listener
handleSwipeThrows == ~(swipeNames \subseteq handleSwipeScope)

\* lines 647-662, on the gesture the listeners measured
swipeDecision(g) ==
    IF g.swipeTime > maxSwipeTime THEN "none"
    ELSE IF Abs(g.deltaX) > Abs(g.deltaY) /\ Abs(g.deltaX) > minSwipeDistance
         THEN (IF g.deltaX > 0 THEN "prevImage" ELSE "nextImage")
    ELSE IF g.deltaY > minSwipeDistance /\ Abs(g.deltaY) > Abs(g.deltaX)
         THEN "closeLightbox"
    ELSE "none"

\* handleSwipe, lines 639-663
handleSwipe(g) ==
    LET decision == IF handleSwipeThrows THEN "none" ELSE swipeDecision(g)
    IN  CASE decision = "prevImage" ->
                /\ prevImage
                /\ UNCHANGED <<lightboxOpen, bodyOverflow>>
          [] decision = "nextImage" ->
                /\ nextImage
                /\ UNCHANGED <<lightboxOpen, bodyOverflow>>
          [] decision = "closeLightbox" ->
                /\ lightboxOpen' = FALSE
                /\ bodyOverflow' = "auto"
                /\ UNCHANGED <<currentImage, currentIndex>>
          [] OTHER ->
                UNCHANGED <<lightboxOpen, bodyOverflow, currentImage, currentIndex>>

\* a touch on the lightbox that started and ended: touchStart and touchEnd of
\* addSwipeSupport (lines 606-616) measure it and touchEnd calls handleSwipe.
\* Every listener attached runs the same handleSwipe, which ends at line 640
Swipe(g) ==
    /\ lightboxOpen
    /\ touch' = g
    /\ handleSwipe(g)
    /\ notes' = <<>>
    /\ lastOp' = "swipe"
    /\ UNCHANGED <<downloadVars, serverVars, otherVars>>
    /\ UNCHANGED <<loading, images, groupedImages, searchQuery, viewMode, pending, storeLen>>
    /\ UNCHANGED <<slideshowActive, slideshowInterval, timers>>
    /\ UNCHANGED <<selectionVars, pageVars, bootVars>>

(***************************************************************************)
(* Specifications                                                          *)
(***************************************************************************)
\* the store sizes of the pagination specification: around the page borders
StoreSizes == {0, 1, photosPerPage, photosPerPage + 1, MaxStore}

\* what the user types into the search box
Queries ==
    { <<>>,
      <<" ">>,
      <<"c", "A", "t">>,
      <<"B", "a", "t", "h">>,
      <<"t", " ">>,
      <<"1", "/", "2">>,
      <<"z", "z">> }

MaxPage == ceilDiv(MaxStore, photosPerPage)

\* the gallery over stores that fill up to three pages: loading, paging, search
Init == \E n \in StoreSizes : Construct(n)

Next ==
    \/ InitStart
    \/ pending = <<>> /\ RefreshStart
    \/ LoadOk
    \/ LoadNoImages
    \/ LoadFail
    \/ \E page \in 0..(MaxPage + 1) : GoToPage(page)
    \/ NextPage
    \/ PrevPage
    \/ \E q \in Queries : SearchPhotos(q)
    \/ ClearSearch
    \/ ToggleViewMode

Spec == Init /\ [][Next]_vars


\* the gallery over small stores: overlapping loads by every caller, the
\* auto-refresh poll, fetchHistory, and the webhook filling the store
LoadSizes == 0..MaxLoad

InitLoad == \E n \in LoadSizes : Construct(n)

NextLoad ==
    \/ InitStart
    \/ PollStart
    \/ RefreshStart
    \/ FetchHistoryStart
    \/ \E i \in 1..Len(pending) : HistoryFail(i)
    \/ \E i \in 1..Len(pending) : HistoryError(i)
    \/ \E i \in 1..Len(pending), n \in LoadSizes : HistorySuccess(i, n)
    \/ LoadOk
    \/ LoadNoImages
    \/ LoadFail
    \/ \E n \in LoadSizes : Deliver(n)

SpecLoad == InitLoad /\ [][NextLoad]_vars

\* the gallery over a server that comes and goes: every fetch settles, with
\* the answer or rejected; the setInterval of setupAutoRefresh fires again
\* and again once it is installed (line 463)
Settle == \E i \in 1..Len(pending) : FetchSettles(i)

NextRecover ==
    \/ InitStart
    \/ PollStart
    \/ RefreshStart
    \/ Settle
    \/ ServerLost
    \/ ServerBack
    \/ \E n \in LoadSizes : Deliver(n)

\* a fetch of /api/images is on its way: Settle can be taken
SettleEnabled == \E i \in 1..Len(pending) : pending[i].kind = "load"

\* weak fairness of Settle, with its enabling condition written out
SettleIsFair == ([]<>~SettleEnabled) \/ ([]<><<Settle>>_vars)

SpecRecover ==
    /\ InitLoad
    /\ [][NextRecover]_vars
    /\ WF_vars(InitStart)
    /\ SF_vars(PollStart)
    /\ SettleIsFair

\* the gallery over small stores: lightbox, keyboard and slideshow, with
\* reloads in between
ShowSizes == 0..MaxShow

InitShow == \E n \in ShowSizes : Construct(n)

NextShow ==
    \/ InitStart
    \/ pending = <<>> /\ RefreshStart
    \/ LoadOk
    \/ LoadFail
    \/ \E n \in ShowSizes : Deliver(n)
    \/ \E image \in shownImages : OpenLightbox(image)
    \/ CloseLightbox
    \/ NextImage
    \/ PrevImage
    \/ KeyEscape
    \/ KeySpace
    \/ StartSlideshow
    \/ StopSlideshow
    \/ \E t \in timers : SlideshowTick(t)

SpecShow == InitShow /\ [][NextShow]_vars

\* a slideshow left to itself while the gallery reloads: its timer fires again
\* and again (setInterval, line 349), every fetch settles, the auto-refresh
\* timer fires again and again, the server comes and goes
Tick == \E t \in timers : SlideshowTick(t)

NextSlideshow ==
    \/ InitStart
    \/ PollStart
    \/ Settle
    \/ ServerLost
    \/ ServerBack
    \/ \E n \in ShowSizes : Deliver(n)
    \/ ~slideshowActive /\ StartSlideshow
    \/ Tick

SpecSlideshow ==
    /\ InitShow
    /\ [][NextSlideshow]_vars
    /\ WF_vars(InitStart)
    /\ WF_vars(Tick)
    /\ SF_vars(PollStart)
    /\ SettleIsFair

\* the lightbox under touch: gestures of every kind around the thresholds
Gestures ==
    [deltaX : {-60, -50, 0, 60}, deltaY : {-70, 0, 40, 60}, swipeTime : {200, 300, 301}]

NextTouch ==
    \/ InitStart
    \/ LoadOk
    \/ \E image \in shownImages : OpenLightbox(image)
    \/ CloseLightbox
    \/ NextImage
    \/ \E g \in Gestures : Swipe(g)

SpecTouch == InitShow /\ [][NextTouch]_vars

\* selection and batch download over small stores: the selection changes
\* while downloads are pending
NextDownload ==
    \/ InitStart
    \/ LoadOk
    \/ \E photo \in shownImages : TogglePhotoSelection(photo)
    \/ SelectAllVisible
    \/ ClearSelection
    \/ ToggleSelectionMode
    \/ DownloadSelected
    \/ TimePasses
    \/ RunTimeout

SpecDownload == InitLoad /\ [][NextDownload]_vars

\* selection across pages: galleries of no photo, one photo and two pages;
\* single photos are picked among the first MaxPick of the page shown, whole
\* pages by button and by keyboard
MaxPick == 2

SelectSizes == {0, 1, photosPerPage + 1}

pickable == {displayedImages[i] : i \in 1..Min(MaxPick, Len(displayedImages))}

InitSelect == \E n \in SelectSizes : Construct(n)

NextSelect ==
    \/ InitStart
    \/ LoadOk
    \/ NextPage
    \/ PrevPage
    \/ \E photo \in pickable : TogglePhotoSelection(photo)
    \/ SelectAllVisible
    \/ ClearSelection
    \/ ToggleSelectionMode
    \/ KeySelectAll
    \/ KeyEscapeSelection

SpecSelect == InitSelect /\ [][NextSelect]_vars

\* the pager over every page count up to MaxPages and every page of it; the
\* page count 0 of an empty list comes with page 1
MaxPages == 10

PagerInputs ==
    {in \in [total : 0..MaxPages, page : 1..MaxPages] : in.page <= Max(1, in.total)}

InitPager ==
    \E in \in PagerInputs :
        /\ ConstructData(0)
        /\ currentPage = in.page
        /\ totalPages = in.total

NextPager == GetPageNumbers

SpecPager == InitPager /\ [][NextPager]_vars

\* the server: deliveries of every kind, in any order, any number of times
Deliveries ==
    [kind : {"photo", "text", "malformed"}, id : 1..MaxEvents, provider : {"up", "down"}]

InitServer == Construct(0)

NextServer ==
    \/ \E d \in Deliveries : Webhook(d)
    \/ GetImages

SpecServer == InitServer /\ [][NextServer]_vars

(***************************************************************************)
(* Properties                                                              *)
(***************************************************************************)
CasePairs == {<<"A", "a">>, <<"B", "b">>, <<"C", "c">>, <<"F", "f">>, <<"T", "t">>}

\* two characters that differ at most in case
SameLetter(a, b) == a = b \/ <<a, b>> \in CasePairs \/ <<b, a>> \in CasePairs

\* q occurs in s as a substring, case ignored
ContainsIgnoringCase(s, q) ==
    \E off \in 0..(Len(s) - Len(q)) : \A k \in 1..Len(q) : SameLetter(s[off + k], q[k])

\* nothing but white space
IsBlank(q) == \A k \in 1..Len(q) : q[k] = " "

\* an image whose caption or formatted date has q in it
Matches(img, q) ==
    \/ ContainsIgnoringCase(img.caption, q)
    \/ ContainsIgnoringCase(formatDate(img.timestamp), q)

\* the images that pass the search filter of query q, in the order of imgs
Passing(imgs, q) ==
    IF IsBlank(q) THEN imgs ELSE SelectSeq(imgs, LAMBDA img : Matches(img, q))

\* a step that recomputed pagination: a successful loadImages, searchPhotos,
\* clearSearch, toggleViewMode, or a goToPage (nextPage, prevPage) that was accepted
RecomputedPagination ==
    \/ lastOp' \in {"loadImages", "searchPhotos", "clearSearch", "toggleViewMode"}
    \/ lastOp' = "goToPage" /\ \E page \in 1..totalPages : GoToPage(page)
    \/ lastOp' = "nextPage" /\ pageAccepted(currentPage + 1, totalPages)
    \/ lastOp' = "prevPage" /\ pageAccepted(currentPage - 1, totalPages)

\* C1: after any operation that recomputes pagination, totalPages is
\* ceil(N / photosPerPage), N the number of images passing the search filter
\* (all images when the trimmed query is empty)
C1_TotalPagesIsCeiling ==
    [][RecomputedPagination =>
          LET N == Len(Passing(images', searchQuery'))
          IN  /\ totalPages' * photosPerPage >= N
              /\ (totalPages' - 1) * photosPerPage < N]_vars

\* a search has cut a gallery of three pages down to one page
C1_Witness ==
    /\ lastOp = "searchPhotos"
    /\ ~IsBlank(searchQuery)
    /\ Len(images) > 2 * photosPerPage
    /\ totalPages = 1
    /\ Len(filteredImages) > 0

\* C2: once pagination has been computed, page 1 passes the test goToPage
\* applies, whatever the number of images
C2_PageOneAlwaysValid ==
    [][RecomputedPagination => pageAccepted(1, totalPages')]_vars

\* the images page k of the list f holds: positions (k-1)*P .. min(k*P, N)-1
PageOf(f, k) ==
    [j \in 1..(Min(k * photosPerPage, Len(f)) - (k - 1) * photosPerPage) |->
        f[(k - 1) * photosPerPage + j]]

\* C3: with N filtered images, goToPage(k) for a page k of 1..ceil(N/P) shows
\* the filtered images at positions (k-1)*P .. min(k*P, N)-1 in order: P
\* images on every page but the last, N - (T-1)*P on the last; and
\* displayedImages never holds more than P images
C3_PageHoldsItsSlice ==
    [][/\ Len(displayedImages') <= photosPerPage
       /\ lastOp' = "goToPage" =>
            LET f == Passing(images, searchQuery)
                N == Len(f)
                T == ceilDiv(N, photosPerPage)
            IN  \A k \in 1..T :
                   GoToPage(k) =>
                      /\ displayedImages' = PageOf(f, k)
                      /\ currentPage' = k
                      /\ Len(displayedImages') =
                            IF k < T THEN photosPerPage
                            ELSE N - (T - 1) * photosPerPage]_vars

\* 25 images: two pages, and page 2 shows one image
C3_Witness ==
    /\ lastOp = "goToPage"
    /\ Len(filteredImages) = photosPerPage + 1
    /\ totalPages = 2
    /\ currentPage = 2
    /\ Len(displayedImages) = 1

\* C4: searchPhotos with a non-blank query q paginates exactly the images
\* whose caption or formatted date contains q, case ignored, in the order
\* they have in images
C4_SearchKeepsExactlyTheMatches ==
    [][(lastOp' = "searchPhotos" /\ ~IsBlank(searchQuery')) =>
          /\ filteredImages' = SelectSeq(images, LAMBDA img : Matches(img, searchQuery'))
          /\ displayedImages' = PageOf(filteredImages', 1)
          /\ totalPages' = ceilDiv(Len(filteredImages'), photosPerPage)]_vars

\* a search in mixed case that keeps some images and drops others
C4_Witness ==
    /\ lastOp = "searchPhotos"
    /\ searchQuery = <<"c", "A", "t">>
    /\ Len(filteredImages) > 0
    /\ Len(filteredImages) < Len(images)


\* s holds every element of t as often as t does, and nothing else
IsPermutation(s, t) ==
    /\ Len(s) = Len(t)
    /\ \A j \in 1..Len(t) :
          Cardinality({k \in 1..Len(s) : s[k] = t[j]})
              = Cardinality({k \in 1..Len(t) : t[k] = t[j]})

\* no image of s is older than the one after it
NewestFirst(s) ==
    \A k \in 1..(Len(s) - 1) : DateValue(s[k].timestamp) >= DateValue(s[k + 1].timestamp)

\* C5: after every successful loadImages, images is a permutation of the
\* records the read API returned, ordered newest first, whatever order the
\* server returned them in
C5_ImagesSortedNewestFirst ==
    [][lastOp' = "loadImages" =>
          \A i \in 1..Len(pending) :
              /\ LoadFinish(i, "ok") =>
                     /\ IsPermutation(images', apiImages(pending[i].snap))
                     /\ NewestFirst(images')
              /\ LoadFinish(i, "noimages") => images' = <<>>]_vars

\* a load of more than a page of records that the server returned in another
\* order, two of them of the same timestamp
C5_Witness ==
    /\ lastOp = "loadImages"
    /\ Len(images) > photosPerPage
    /\ images # apiImages(Len(images))
    /\ \E k \in 1..(Len(images) - 1) : images[k].timestamp = images[k + 1].timestamp

RECURSIVE SumOfCounts(_)
SumOfCounts(groups) ==
    IF groups = <<>> THEN 0 ELSE groups[1].count + SumOfCounts(Tail(groups))

\* the groups that hold image among their photos
GroupsHolding(groups, image) ==
    {g \in 1..Len(groups) : \E k \in 1..Len(groups[g].photos) : groups[g].photos[k] = image}

\* group g of groups is the group of image's calendar month and year
IsMonthOf(group, image) ==
    /\ group.year = getFullYear(image.timestamp)
    /\ group.monthName = getMonth(image.timestamp)

\* the groups in order, each of a later month than the next
NewestMonthFirst(groups) ==
    \A g \in 1..(Len(groups) - 1) :
        \/ groups[g].year > groups[g + 1].year
        \/ /\ groups[g].year = groups[g + 1].year
           /\ groups[g].monthName > groups[g + 1].monthName

\* C6: after every successful loadImages, groupedImages partitions images by
\* calendar month and year: every image is in exactly one group, the group of
\* its timestamp's month and year; a group's count is the number of its
\* photos; the counts sum to images.length; getSortedMonthGroups lists the
\* groups newest month first
C6_GroupsPartitionByMonth ==
    [][lastOp' = "loadImages" =>
          LET G == groupedImages'
              sorted == getSortedMonthGroups(G)
          IN  /\ \A i \in 1..Len(images') :
                    /\ Cardinality(GroupsHolding(G, images'[i])) = 1
                    /\ \A g \in GroupsHolding(G, images'[i]) : IsMonthOf(G[g], images'[i])
              /\ \A g, h \in 1..Len(G) :
                    (G[g].year = G[h].year /\ G[g].monthName = G[h].monthName) => g = h
              /\ \A g \in 1..Len(G) : G[g].count = Len(G[g].photos)
              /\ SumOfCounts(G) = Len(images')
              /\ IsPermutation(sorted, G)
              /\ NewestMonthFirst(sorted)]_vars

\* a load has spread more than two pages of images over several months of
\* two years, with one month in both years
C6_Witness ==
    /\ lastOp = "loadImages"
    /\ Len(images) > 2 * photosPerPage
    /\ Len(groupedImages) > 2
    /\ \E g, h \in 1..Len(groupedImages) :
          /\ groupedImages[g].monthName = groupedImages[h].monthName
          /\ groupedImages[g].year # groupedImages[h].year

\* C7: when the fetch or the JSON decoding inside loadImages fails, images
\* and displayedImages both become empty, whatever they held, and loading
\* returns to false
C7_FailedLoadClearsTheList ==
    [][lastOp' = "loadFailed" =>
          /\ images' = <<>>
          /\ displayedImages' = <<>>
          /\ loading' = FALSE]_vars

\* a load has failed over a gallery whose search showed fewer images than
\* it held: the list is empty, the month groups and the page count of the
\* earlier load are still there
C7_Witness ==
    /\ lastOp = "loadFailed"
    /\ searchQuery # <<>>
    /\ filteredImages # <<>>
    /\ totalPages > 1
    /\ images = <<>>
    /\ displayedImages = <<>>
    /\ groupedImages # <<>>
    /\ ~loading


HasNote(ns, type) == \E k \in 1..Len(ns) : ns[k].type = type

\* C8: every failed fetch of the image list, whoever called loadImages,
\* surfaces a notification of the failure to the user, and is followed by no
\* success notification for that load
C8_FailedLoadIsNotified ==
    [][lastOp' = "loadFailed" =>
          /\ HasNote(notes', "error")
          /\ ~HasNote(notes', "success")]_vars

\* C9: an auto-refresh poll shows the new-photos notification exactly when
\* more images are held after its load than just before the poll started,
\* and the number it reports is that difference
C9_PollReportsTheDifference ==
    [][lastOp' \in {"loadImages", "loadFailed"} =>
          \A i \in 1..Len(pending) :
              (/\ pending[i].caller = "poll"
               /\ \E outcome \in FetchOutcomes : LoadFinish(i, outcome)) =>
                  LET d == Len(images') - pending[i].before
                  IN  notes' = IF d > 0
                               THEN <<[type |-> "success", text |-> "new photos added", n |-> d]>>
                               ELSE <<>>]_vars

\* a poll over a gallery that held one image has found one more
C9_Witness ==
    /\ lastOp = "loadImages"
    /\ Len(images) = 2
    /\ notes = <<[type |-> "success", text |-> "new photos added", n |-> 1]>>

\* startSlideshow has run: from the button, or from the space key with no
\* slideshow active
SlideshowStarted ==
    \/ lastOp' = "startSlideshow"
    \/ lastOp' = "keySpace" /\ ~slideshowActive

\* startSlideshow on a non-empty list opens the lightbox at index 0 with
\* currentImage = images[0] and a new timer; on an empty list it changes nothing
StartOpensAtFirstImage ==
    SlideshowStarted =>
        IF Len(images) > 0
        THEN /\ currentIndex' = 0
             /\ currentImage' = images[1]
             /\ lightboxOpen'
             /\ slideshowActive'
             /\ slideshowInterval' \in timers' \ timers
        ELSE /\ UNCHANGED <<lightboxVars, selectionVars, pageVars, bootVars>>
             /\ UNCHANGED <<loading, images, groupedImages, searchQuery, viewMode,
                            pending, storeLen>>
             /\ notes' = <<>>

\* a tick that leaves currentIndex at the last image stops the slideshow and
\* clears its timer; no tick moves currentIndex past the last image
TickStopsAtLastImage ==
    lastOp' = "tick" =>
        /\ currentIndex' = Len(images) - 1 =>
               /\ ~slideshowActive'
               /\ slideshowInterval' = 0
               /\ slideshowInterval \notin timers'
        /\ currentIndex' > currentIndex => currentIndex' <= Len(images) - 1

\* C10 as stated: every tick of a running slideshow over a non-empty list
\* advances currentIndex by exactly one and sets currentImage = images[currentIndex]
C10_EveryTickAdvances ==
    [][/\ StartOpensAtFirstImage
       /\ TickStopsAtLastImage
       /\ (lastOp' = "tick" /\ slideshowActive /\ Len(images) > 0) =>
              /\ currentIndex' = currentIndex + 1
              /\ currentImage' = at(images, currentIndex')]_vars

\* C10, amended: a tick that finds currentIndex before the last image
\* advances it by exactly one and sets currentImage = images[currentIndex]; a
\* tick that finds it at the last image or beyond moves nothing; a tick that
\* leaves currentIndex at the last image stops the slideshow, any other tick
\* leaves it running; startSlideshow opens at images[0], or changes nothing
\* on an empty list
C10_TickAdvancesBeforeLastImage ==
    [][/\ StartOpensAtFirstImage
       /\ TickStopsAtLastImage
       /\ lastOp' = "tick" =>
              /\ IF currentIndex < Len(images) - 1
                 THEN /\ currentIndex' = currentIndex + 1
                      /\ currentImage' = at(images, currentIndex')
                 ELSE UNCHANGED <<currentIndex, currentImage>>
              /\ currentIndex' # Len(images) - 1 =>
                     UNCHANGED <<slideshowActive, slideshowInterval, timers>>]_vars

\* the slideshow has run from the first image of three to the last and has
\* stopped itself there
C10_Witness ==
    /\ lastOp = "tick"
    /\ Len(images) = 3
    /\ currentIndex = 2
    /\ currentImage = images[3]
    /\ lightboxOpen
    /\ ~slideshowActive
    /\ slideshowInterval = 0
    /\ timers = {}

\* the index is one of the list
InRange(index, imgs) == 0 <= index /\ index < Len(imgs)

\* C11: with the lightbox open, ArrowRight (nextImage) and ArrowLeft
\* (prevImage) from an index of the list move currentIndex by exactly one
\* and set currentImage = images[currentIndex]; ArrowRight at the last image
\* and ArrowLeft at the first change neither; the index stays in the list
C11_ArrowsMoveByOneInsideTheList ==
    [][(lastOp' \in {"nextImage", "prevImage"} /\ InRange(currentIndex, images)) =>
          LET last == Len(images) - 1
              step == IF lastOp' = "nextImage" THEN 1 ELSE -1
              atEnd == IF lastOp' = "nextImage" THEN currentIndex = last
                       ELSE currentIndex = 0
          IN  /\ lightboxOpen
              /\ IF atEnd
                 THEN UNCHANGED <<currentIndex, currentImage>>
                 ELSE /\ currentIndex' = currentIndex + step
                      /\ currentImage' = images[currentIndex' + 1]
              /\ InRange(currentIndex', images)]_vars

\* ArrowLeft has moved the lightbox from the last of three images to the middle one
C11_Witness ==
    /\ lastOp = "prevImage"
    /\ Len(images) = 3
    /\ currentIndex = 1
    /\ currentImage = images[2]
    /\ lightboxOpen

\* the gesture ended within 300 ms
QuickGesture(g) == g.swipeTime <= 300

\* it moved more than 50 px horizontally, and more horizontally than vertically
HorizontalGesture(g) == Abs(g.deltaX) > 50 /\ Abs(g.deltaX) > Abs(g.deltaY)

\* it moved more than 50 px downward, and more vertically than horizontally
DownwardGesture(g) == g.deltaY > 50 /\ Abs(g.deltaY) > Abs(g.deltaX)

\* C12: while the lightbox is open, a gesture within 300 ms of more than
\* 50 px horizontally navigates (leftward: nextImage, rightward: prevImage),
\* one of more than 50 px downward closes the lightbox, and any slower or
\* shorter gesture changes no state
C12_SwipeNavigates ==
    [][lastOp' = "swipe" =>
          LET g == touch'
          IN  CASE QuickGesture(g) /\ HorizontalGesture(g) /\ g.deltaX < 0 ->
                      /\ nextImage
                      /\ UNCHANGED <<lightboxOpen, bodyOverflow>>
                [] QuickGesture(g) /\ HorizontalGesture(g) /\ g.deltaX > 0 ->
                      /\ prevImage
                      /\ UNCHANGED <<lightboxOpen, bodyOverflow>>
                [] QuickGesture(g) /\ DownwardGesture(g) ->
                      /\ ~lightboxOpen'
                      /\ UNCHANGED <<currentIndex, currentImage>>
                [] OTHER ->
                      UNCHANGED <<lightboxOpen, bodyOverflow, currentIndex, currentImage>>]_vars

\* the timeouts a step has set: those of timeouts' after the ones already there
NewTimeouts == SubSeq(timeouts', Len(timeouts) + 1, Len(timeouts'))

\* the batch whose completion step has just run
CompletedBatch == CHOOSE b \in 1..Len(batches) : batches[b].reported # batches'[b].reported

\* C13: downloadSelected over n >= 1 selected photos triggers exactly one
\* download for each photo selected at the call, in selection order, the
\* i-th at i * 500 ms; the completion step runs only after the last of them,
\* reports n photos, empties selectedPhotos and leaves selection mode, also
\* when the selection changes while downloads are pending.  Over an empty
\* selection it schedules nothing and changes no state
C13_BatchDownloadsWhatWasSelected ==
    [][/\ lastOp' = "downloadSelected" =>
              LET n == Len(selectedPhotos)
              IN  /\ Len(NewTimeouts) = IF n = 0 THEN 0 ELSE n + 1
                  /\ \A i \in 1..n :
                        /\ NewTimeouts[i].kind = "download"
                        /\ NewTimeouts[i].photo = selectedPhotos[i]
                        /\ NewTimeouts[i].due = (i - 1) * 500
                  /\ n > 0 => NewTimeouts[n + 1].kind = "complete"
                  /\ n > 0 => NewTimeouts[n + 1].due > (n - 1) * 500
                  /\ UNCHANGED <<selectedPhotos, selectionMode>>
       /\ \A b \in 1..Len(batches') :
              /\ Len(batches'[b].downloaded) <= Len(batches'[b].selected)
              /\ batches'[b].downloaded
                     = SubSeq(batches'[b].selected, 1, Len(batches'[b].downloaded))
       /\ lastOp' = "downloadComplete" =>
              LET before == batches[CompletedBatch]
                  after == batches'[CompletedBatch]
              IN  /\ before.downloaded = before.selected
                  /\ after.reported = Len(before.selected)
                  /\ notes' = <<[type |-> "success", text |-> "photos downloaded",
                                 n |-> Len(before.selected)]>>
                  /\ selectedPhotos' = <<>>
                  /\ ~selectionMode']_vars

\* the delivery just handled holds a photo attachment
PhotoDelivered == delivery'.kind = "photo"

\* exactly one record was appended, of the event delivered and with a full_url
OneRecordAppended ==
    /\ Len(store') = Len(store) + 1
    /\ SubSeq(store', 1, Len(store)) = store
    /\ store'[Len(store')].id = delivery'.id
    /\ store'[Len(store')].full_url # <<>>

\* C14 as stated: every valid delivery with a photo attachment appends
\* exactly one ImageRecord, with a non-empty full_url; a delivery without a
\* photo attachment appends nothing
C14_EveryPhotoDeliveryAppends ==
    [][lastOp' = "webhookDelivery" =>
          IF PhotoDelivered THEN OneRecordAppended ELSE store' = store]_vars

\* C14, amended: a valid delivery with a photo attachment appends exactly one
\* ImageRecord, with the event's id and a non-empty full_url, when the
\* provider resolves the file reference and no record of that id is stored;
\* it appends nothing when the provider is unreachable or the id is stored
\* already; a delivery without a photo attachment appends nothing
C14_NewResolvedPhotoAppendsOnce ==
    [][lastOp' = "webhookDelivery" =>
          IF /\ PhotoDelivered
             /\ delivery'.provider = "up"
             /\ \A k \in 1..Len(store) : store[k].id # delivery'.id
          THEN OneRecordAppended
          ELSE store' = store]_vars

\* the third photo event has been stored, after the other two
C14_Witness ==
    /\ lastOp = "webhookDelivery"
    /\ delivery.kind = "photo"
    /\ delivery.provider = "up"
    /\ Len(store) = 3
    /\ store[3].id = delivery.id
    /\ store[3].full_url # <<>>
    /\ errorLog = <<>>

\* the delivery just handled failed: its payload is malformed, or the
\* provider could not be reached for its photo
FailedDelivery ==
    \/ delivery'.kind = "malformed"
    \/ delivery'.kind = "photo" /\ delivery'.provider = "down"

\* C15: the webhook endpoint answers every delivery with the success
\* acknowledgment, also when the payload is malformed or the provider is
\* unreachable; then the store is left unchanged and the error is logged
C15_WebhookAlwaysAcknowledges ==
    [][lastOp' = "webhookDelivery" =>
          /\ response' = [status |-> "ok"]
          /\ FailedDelivery => (store' = store /\ errorLog' # <<>>)]_vars

\* a photo event came while the provider was unreachable, to a store that
\* held records: acknowledged, logged, nothing stored
C15_Witness ==
    /\ lastOp = "webhookDelivery"
    /\ delivery.kind = "photo"
    /\ delivery.provider = "down"
    /\ store # <<>>
    /\ \A k \in 1..Len(store) : store[k].id # delivery.id
    /\ response = [status |-> "ok"]
    /\ errorLog # <<>>

\* no two records of the store share an id
StoreIdsUnique ==
    \A j, k \in 1..Len(store) : store[j].id = store[k].id => j = k

\* the records stored stay, as they are and where they are
StoredRecordsStay ==
    /\ Len(store') >= Len(store)
    /\ SubSeq(store', 1, Len(store)) = store

\* C16: in every reachable state of the store no two ImageRecords share an
\* id, whatever was delivered and redelivered; a stored record is never
\* mutated or removed
C16_IdsUniqueRecordsStay == []StoreIdsUnique /\ [][StoredRecordsStay]_vars

\* an event stored earlier has been delivered again to a full store
C16_Witness ==
    /\ lastOp = "webhookDelivery"
    /\ delivery.kind = "photo"
    /\ delivery.provider = "up"
    /\ Len(store) = 3
    /\ store[1].id = delivery.id

\* what the gallery reads of a stored record
GalleryFields(record) ==
    [id |-> record.id, timestamp |-> record.timestamp, caption |-> record.caption]

\* the answer of GET /api/images holds an images array with every stored
\* record, in the store's order, and it is what a fetch of the gallery gets
ReadApiListsTheStore ==
    LET answer == listImages(store)
    IN  /\ DOMAIN answer = {"images"}
        /\ answer.images = store
        /\ store = <<>> => answer = [images |-> <<>>]
        /\ Len(apiImages(storeLen)) = Len(answer.images)
        /\ \A k \in 1..Len(store) : apiImages(storeLen)[k] = GalleryFields(answer.images[k])

\* a load has settled on the answer of an empty store, or on an answer
\* without an images field
EmptyAnswerLoaded ==
    \E i \in 1..Len(pending) :
        \/ pending[i].snap = 0 /\ LoadFinish(i, "ok")
        \/ LoadFinish(i, "noimages")

\* C17: GET /api/images answers with an images array listing every stored
\* record, {images: []} over an empty store; the gallery that loaded that
\* answer, or an answer without images, is in the empty state: images = [],
\* displayedImages = [], loading = false
C17_EmptyAnswerEmptyGallery ==
    /\ []ReadApiListsTheStore
    /\ [][(lastOp' = "loadImages" /\ EmptyAnswerLoaded) =>
             /\ images' = <<>>
             /\ displayedImages' = <<>>
             /\ loading' = FALSE]_vars

\* the gallery has loaded the answer of an empty store while another load
\* was on its way
C17_Witness ==
    /\ lastOp = "loadImages"
    /\ pending # <<>>
    /\ images = <<>>
    /\ displayedImages = <<>>
    /\ totalPages = 0
    /\ ~loading


\* what goToPage is claimed to leave alone when it rejects its page
PagingUntouched == UNCHANGED <<currentPage, totalPages, displayedImages>>

\* the pages goToPage is called with
PageInputs == 0..(MaxPage + 1)

\* C18: goToPage(p) with p < 1 or p > totalPages changes nothing:
\* currentPage, totalPages and displayedImages stay as they were; so nextPage
\* on the last page and prevPage on page 1 are no-ops; and after an accepted
\* goToPage(p) currentPage = p
C18_GoToPageAcceptsOrLeaves ==
    [][/\ \A p \in PageInputs :
            GoToPage(p) =>
                IF p < 1 \/ p > totalPages THEN PagingUntouched ELSE currentPage' = p
       /\ (lastOp' = "nextPage" /\ currentPage = totalPages) => PagingUntouched
       /\ (lastOp' = "prevPage" /\ currentPage = 1) => PagingUntouched]_vars


\* the operations that go back to the first page
BackToFirstPage == lastOp' \in {"searchPhotos", "clearSearch", "toggleViewMode"}

\* C19: searchPhotos, clearSearch and toggleViewMode each set currentPage to 1
\* and make displayedImages the first page of the list filtered by the query
\* then in force (clearSearch first empties searchQuery, so the first page of
\* the unfiltered list is shown); and whenever a recomputation finds
\* currentPage greater than the new totalPages, currentPage is reset to 1
C19_BackToFirstPage ==
    [][/\ BackToFirstPage =>
            /\ currentPage' = 1
            /\ displayedImages' = PageOf(Passing(images', searchQuery'), 1)
       /\ lastOp' = "clearSearch" =>
            /\ searchQuery' = <<>>
            /\ displayedImages' = PageOf(images', 1)
       /\ (lastOp' = "loadImages" /\ currentPage > totalPages') => currentPage' = 1
       /\ \A p \in PageInputs :
            (GoToPage(p) /\ pageAccepted(p, totalPages) /\ p > totalPages') =>
                currentPage' = 1
       /\ (RecomputedPagination /\ currentPage' > totalPages') => currentPage' = 1]_vars

\* a search has just narrowed a gallery of more than one page to a shorter
\* first page
C19_Witness ==
    /\ lastOp = "searchPhotos"
    /\ searchQuery # <<>>
    /\ totalPages = 1
    /\ currentPage = 1
    /\ displayedImages # <<>>
    /\ Len(images) > photosPerPage
    /\ Len(displayedImages) < photosPerPage


\* no two entries of the selection have the same id
SelectionIdsUnique ==
    \A i, j \in 1..Len(selectedPhotos) :
        selectedPhotos[i].id = selectedPhotos[j].id => i = j

\* the ids a list of photos holds
IdsOf(photos) == {photos[k].id : k \in 1..Len(photos)}

\* selectAllVisible has run, from the button or from Ctrl+A
SelectedAll == lastOp' \in {"selectAllVisible", "keySelectAll"}

\* C20: after any sequence of togglePhotoSelection, selectAllVisible,
\* clearSelection and toggleSelectionMode, selectedPhotos contains no two
\* entries with the same id; selectAllVisible adds every displayed photo not
\* yet selected and removes none, so photos selected on other pages stay
\* selected and calling it twice equals calling it once
C20_SelectionHasNoDuplicates ==
    /\ []SelectionIdsUnique
    /\ [][SelectedAll =>
            /\ IdsOf(selectedPhotos') = IdsOf(selectedPhotos) \cup IdsOf(displayedImages)
            /\ SubSeq(selectedPhotos', 1, Len(selectedPhotos)) = selectedPhotos
            /\ Len(selectedPhotos') = Len(selectedPhotos)
                  + Cardinality(IdsOf(displayedImages) \ IdsOf(selectedPhotos))
            /\ selectAllVisible(selectedPhotos', displayedImages') = selectedPhotos']_vars

\* everything on the second page has just been selected, on top of photos
\* selected on the first page
C20_Witness ==
    /\ lastOp = "selectAllVisible"
    /\ currentPage = 2
    /\ displayedImages # <<>>
    /\ IdsOf(displayedImages) \subseteq IdsOf(selectedPhotos)
    /\ IdsOf(selectedPhotos) \ IdsOf(displayedImages) # {}


\* the ids selected after a click on photo: the id of photo has changed
\* sides, every other id is where it was
Flipped(ids, photo) ==
    IF photo.id \in ids THEN ids \ {photo.id} ELSE ids \cup {photo.id}

\* C21: togglePhotoSelection(p) flips the membership of p's id in the
\* selection and of no other photo: if p was not selected it becomes
\* selected, if it was selected it is removed; applying it twice to the same
\* photo restores the original set of selected ids
C21_ToggleFlipsOnePhoto ==
    [][\A photo \in pickable :
          TogglePhotoSelection(photo) =>
              /\ IdsOf(selectedPhotos') = Flipped(IdsOf(selectedPhotos), photo)
              /\ isPhotoSelected(selectedPhotos', photo) = ~isPhotoSelected(selectedPhotos, photo)
              /\ IdsOf(togglePhotoSelection(selectedPhotos', photo)) = IdsOf(selectedPhotos)]_vars

\* a click has just taken one photo out of a selection that holds others,
\* from this page and from the other one
C21_Witness ==
    /\ lastOp = "togglePhotoSelection"
    /\ selectedPhotos # <<>>
    /\ \E photo \in pickable : ~isPhotoSelected(selectedPhotos, photo)
    /\ \E photo \in pickable : isPhotoSelected(selectedPhotos, photo)
    /\ IdsOf(selectedPhotos) \ IdsOf(displayedImages) # {}


\* the pager is drawn for a gallery of at least one page, on one of its pages
PagerDrawn ==
    /\ lastOp = "getPageNumbers"
    /\ totalPages >= 1
    /\ currentPage >= 1
    /\ currentPage <= totalPages

\* C22: for totalPages >= 1 and 1 <= currentPage <= totalPages,
\* getPageNumbers returns a strictly ascending run of consecutive page
\* numbers, all within 1..totalPages, of length at most 5, that contains
\* currentPage; when totalPages <= 5 it returns exactly 1..totalPages
C22_PagerIsARunAroundThePage ==
    PagerDrawn =>
        /\ \A k \in 1..(Len(pageNumbers) - 1) : pageNumbers[k + 1] = pageNumbers[k] + 1
        /\ \A k \in 1..Len(pageNumbers) : pageNumbers[k] \in 1..totalPages
        /\ Len(pageNumbers) <= 5
        /\ \E k \in 1..Len(pageNumbers) : pageNumbers[k] = currentPage
        /\ totalPages <= 5 =>
              /\ Len(pageNumbers) = totalPages
              /\ \A k \in 1..totalPages : pageNumbers[k] = k

\* the pager of the last page of a long gallery: three buttons, the last one
\* the page shown
C22_Witness ==
    /\ PagerDrawn
    /\ totalPages > 5
    /\ currentPage = totalPages
    /\ Len(pageNumbers) = 3
    /\ pageNumbers[3] = currentPage


\* the groups hold exactly the images of imgs, each once
GroupsHoldExactly(groups, imgs) ==
    /\ \A i \in 1..Len(imgs) : Cardinality(GroupsHolding(groups, imgs[i])) = 1
    /\ SumOfCounts(groups) = Len(imgs)
    /\ \A g \in 1..Len(groups) : groups[g].count = Len(groups[g].photos)
    /\ imgs = <<>> => groups = <<>>

\* totalPages, displayedImages and groupedImages are what images and
\* searchQuery make them
DerivedStateAgrees ==
    LET f == Passing(images, searchQuery)
    IN  /\ totalPages * photosPerPage >= Len(f)
        /\ (totalPages - 1) * photosPerPage < Len(f)
        /\ displayedImages = PageOf(f, currentPage)
        /\ GroupsHoldExactly(groupedImages, images)

\* the gallery holds the image list of the server, newest first, and what it
\* derives from it
HoldsServerList ==
    /\ IsPermutation(images, apiImages(storeLen))
    /\ NewestFirst(images)
    /\ DerivedStateAgrees

\* a fetch has been started
FetchStarted == Len(pending') > Len(pending)

\* C23: a failed load triggers no fetch of its own; the next fetch is the
\* next scheduled auto-refresh poll (or a user action). If the server is
\* reachable again, then under fair firing of the auto-refresh timer the
\* gallery eventually holds the server's image list again, with
\* displayedImages, totalPages and groupedImages recomputed from it
C23_PollRecoversAfterFailedLoad ==
    /\ [][/\ lastOp' = "loadFailed" =>
                \E i \in 1..Len(pending) : pending' = RemoveAt(pending, i)
          /\ FetchStarted => lastOp' \in {"init", "pollStart", "refreshStart"}]_vars
    /\ (<>[]online) => ((lastOp = "loadFailed") ~> HoldsServerList)

\* a load has failed over a store that holds photos; the server is back, no
\* fetch is on its way, the auto-refresh timer is installed
C23_Witness ==
    /\ lastOp = "serverBack"
    /\ online
    /\ images = <<>>
    /\ storeLen > 0
    /\ pending = <<>>
    /\ autoRefresh
    /\ ~HoldsServerList


\* C24: whenever the lightbox is open, currentImage is the element of images
\* at currentIndex (currentImage.id = images[currentIndex].id and
\* 0 <= currentIndex < images.length), after any interleaving of
\* openLightbox, nextImage, prevImage, slideshow ticks and image-list reloads
\* (auto-refresh, refreshGallery, failed loads)
C24_LightboxShowsImageAtIndex ==
    lightboxOpen =>
        /\ 0 <= currentIndex
        /\ currentIndex < Len(images)
        /\ currentImage.id = images[currentIndex + 1].id


\* C25: at most one slideshow timer exists at any time, and slideshowActive
\* is true exactly when a slideshow timer is pending, so that after
\* stopSlideshow no slideshow tick fires any more; for every sequence of
\* startSlideshow and stopSlideshow calls, startSlideshow while a slideshow
\* is active included
C25_OneSlideshowTimer ==
    /\ Cardinality(timers) <= 1
    /\ slideshowActive <=> timers # {}


\* an operation of the gallery has run to its end
OperationCompleted ==
    lastOp' \in {"loadImages", "loadFailed", "goToPage", "nextPage", "prevPage",
                 "searchPhotos", "clearSearch", "toggleViewMode"}

\* C26: after every completed operation, including a failed load, the
\* derived state agrees with images and searchQuery: totalPages =
\* ceil(filtered count / 24), displayedImages is page currentPage of the
\* filtered list, and groupedImages holds exactly the images in images
\* (empty when images is empty). Stated here for the operations that find
\* the derived state in agreement: they leave it in agreement
C26_DerivedStateAgrees ==
    [][(DerivedStateAgrees /\ OperationCompleted) => DerivedStateAgrees']_vars


\* a fetch of the image list is in flight
LoadInFlight == \E i \in 1..Len(pending) : pending[i].kind = "load"

\* C27: loading is true whenever a fetch of the image list is in flight and
\* false only when none is, also when several loads overlap (an auto-refresh
\* poll, refreshGallery and fetchHistory's reload suspended at their fetch at
\* the same time)
C27_LoadingWhileFetchInFlight ==
    LoadInFlight => loading


\* C28: when two or more loadImages calls overlap and their responses arrive
\* in any order, once all of them have completed images holds the response
\* of the most recently issued request; an older response never overwrites a
\* newer one, so with an append-only store the number of images held never
\* decreases across successful loads
C28_OlderResponseNeverOverwrites ==
    [][\A i \in 1..Len(pending) :
          LoadFinish(i, "ok") => Len(images') >= Len(images)]_vars


\* C29: every started slideshow eventually stops on its own (slideshowActive
\* false and its timer cleared) under fair firing of its timer, for a finite
\* image list, even when auto-refresh reloads or failed loads replace or
\* empty images while it is running
C29_SlideshowStopsOnItsOwn ==
    slideshowActive ~> (~slideshowActive /\ timers = {})


\* C30: slideshowActive implies lightboxOpen: every way of closing the
\* lightbox (closeLightbox, the Escape key, a swipe down) while a slideshow is
\* running also stops the slideshow, so no slideshow tick changes
\* currentIndex or currentImage while the lightbox is closed
C30_SlideshowOnlyInOpenLightbox ==
    /\ [](slideshowActive => lightboxOpen)
    /\ [][(lastOp' = "tick" /\ ~lightboxOpen) =>
             UNCHANGED <<currentIndex, currentImage>>]_vars


\* background scrolling is locked: document.body.style.overflow is 'hidden'
ScrollLocked == bodyOverflow = "hidden"

\* C31: background scrolling is locked (body overflow hidden) exactly when
\* the lightbox is open: openLightbox and startSlideshow lock it,
\* closeLightbox and the Escape key unlock it, and no sequence of these
\* operations reaches a state with the lightbox open and scrolling unlocked
\* or the lightbox closed and scrolling locked
C31_ScrollLockedWithLightbox ==
    /\ [](lightboxOpen <=> ScrollLocked)
    /\ [][/\ lastOp' = "openLightbox" => ScrollLocked'
          /\ (SlideshowStarted /\ images # <<>>) => ScrollLocked'
          /\ lastOp' \in {"closeLightbox", "keyEscape"} => ~ScrollLocked']_vars

\* Escape has closed the lightbox over a running slideshow and given the
\* page its scrolling back
C31_Witness ==
    /\ lastOp = "keyEscape"
    /\ ~lightboxOpen
    /\ bodyOverflow = "auto"
    /\ slideshowActive


\* the new-photos notifications among the notifications of the last step
NewPhotosNotes(ns) == SelectSeq(ns, LAMBDA note : note.text = "new photos added")

\* C32: a new-photos notification from auto-refresh is shown only when the
\* store really received new records since the gallery last loaded it
\* successfully, and the number it reports equals the number of records
\* added in between; a transient fetch failure followed by a successful
\* poll, with no new record in the store, produces no new-photos notification
C32_NewPhotosNoteCountsNewRecords ==
    [][\A i \in 1..Len(pending) :
          (/\ pending[i].caller = "poll"
           /\ \E outcome \in FetchOutcomes : LoadFinish(i, outcome)) =>
              LET received == pending[i].snap - pending[i].known
                  shown == NewPhotosNotes(notes')
              IN  \/ shown = <<>>
                  \/ /\ received > 0
                     /\ shown = <<Note("success", "new photos added", received)>>]_vars

====
